---- MODULE Spec2Model ----
(***************************************************************************)
(* Batch process supervision of ProxyConverter's Hysteria2 client:         *)
(* ConfigManager.select_config_files, ConnectionManager.connect_batch,     *)
(* ProcessManager.launch_process / check_processes_status /                *)
(* wait_for_interrupt / cleanup_processes / _cleanup_single_process.       *)
(* With them: Hysteria2Client's constructor, main()'s try / finally around   *)
(* the client, and ProxyConverter.generate_all_configs, which writes the    *)
(* config files the client reads.                                           *)
(* All coroutines run on one cooperative event loop: an action is the code *)
(* a coroutine runs between two suspension points.                         *)
(***************************************************************************)
EXTENDS Integers, Sequences, FiniteSets, TLC

\* ---------------------------------------------------------------- bounds
MaxProcs == 3       \* child processes the client holds at one time
MaxParallel == 2    \* largest max_parallel argument tried
MaxLimit == 1       \* largest limit argument tried
MaxClock == 4       \* time units the clock counts during one timed operation
MaxSigs == 4        \* signals one process receives when terminated repeatedly
MaxPattern == 3     \* characters of the filter patterns tried in every spelling
MaxSelect == 2      \* largest limit tried where select_config_files is examined
MaxProxies == 3     \* proxies of the YAML profile given to the converter

\* ------------------------------------------------------ program constants
GraceTimeout == 1   \* asyncio.wait_for(process.wait(), timeout=1.0)
OverallTimeout == 3 \* asyncio.wait_for(asyncio.gather(...), timeout=3.0)

start_port == 8080  \* generate_all_configs: start_port = 8080

Null == -1          \* Python None for returncode / port
ExitCodes == {0}

\* --------------------------------------------------------- config files
FileNames == {"a.json", "b.json", "c.json"}

\* further names a directory can hold, used where the filter is examined
OtherNames == {"A.json", "[a.json", "ab.json"}

\* all_files.sort(): lexicographic order of the paths, by code point
\* ("A" < "[" < "a", "." < "b")
Rank(f) == CASE f = "A.json" -> 1 [] f = "[a.json" -> 2 [] f = "a.json" -> 3
             [] f = "ab.json" -> 4 [] f = "b.json" -> 5 [] f = "c.json" -> 6

\* os.path.basename(file), as the characters of the name
Json == <<".", "j", "s", "o", "n">>
basename(f) == CASE f = "A.json" -> <<"A">> \o Json
                 [] f = "[a.json" -> <<"[", "a">> \o Json
                 [] f = "a.json" -> <<"a">> \o Json
                 [] f = "ab.json" -> <<"a", "b">> \o Json
                 [] f = "b.json" -> <<"b">> \o Json
                 [] f = "c.json" -> <<"c">> \o Json

Digits == {"0", "1", "2"}
DigitVal(c) == CASE c = "0" -> 0 [] c = "1" -> 1 [] c = "2" -> 2

\* listen addresses, as character sequences
Empty  == <<>>                      \* ""
Addr1  == <<"h", ":", "1">>         \* "h:1"
Addr2  == <<"h", ":", "2">>         \* "h:2"
Addr10 == <<"h", ":", "1", "0">>    \* "h:10"
NoPort == <<"h", ":", "h">>         \* "h:h"

\* file contents.  json: the text parses; http: the "http" member is absent,
\* a string containing "listen", or an object; haslisten/listen: the object's
\* "listen" member.
BadJson == [json |-> FALSE, http |-> "absent", haslisten |-> FALSE, listen |-> <<>>]
NoHttp  == [json |-> TRUE,  http |-> "absent", haslisten |-> FALSE, listen |-> <<>>]
HttpStr == [json |-> TRUE,  http |-> "string", haslisten |-> FALSE, listen |-> <<>>]
NoListen == [json |-> TRUE, http |-> "object", haslisten |-> FALSE, listen |-> <<>>]
WithListen(l) == [json |-> TRUE, http |-> "object", haslisten |-> TRUE, listen |-> l]

\* the config directories tried: file -> content
AllValid == [f \in FileNames |-> CASE f = "a.json" -> WithListen(Addr1)
                                  [] f = "b.json" -> WithListen(Addr2)
                                  [] f = "c.json" -> WithListen(Addr10)]

Directories ==
    { AllValid,
      [f \in FileNames |-> CASE f = "a.json" -> WithListen(Addr1)
                            [] f = "b.json" -> BadJson
                            [] f = "c.json" -> WithListen(Addr2)],
      [f \in FileNames |-> CASE f = "a.json" -> WithListen(Addr1)
                            [] f = "b.json" -> HttpStr
                            [] f = "c.json" -> BadJson],
      [f \in FileNames |-> CASE f = "a.json" -> WithListen(Empty)
                            [] f = "b.json" -> WithListen(Addr2)
                            [] f = "c.json" -> WithListen(NoPort)],
      [f \in FileNames |-> CASE f = "a.json" -> NoHttp
                            [] f = "b.json" -> NoListen
                            [] f = "c.json" -> WithListen(Addr10)] }

\* ------------------------------------------------------------- sequences
Range(s) == {s[i] : i \in 1..Len(s)}

Take(s, n) == SubSeq(s, 1, n)

RECURSIVE Insert(_, _)
Insert(x, s) ==
    IF s = <<>> THEN <<x>>
    ELSE IF Rank(x) <= Rank(Head(s)) THEN <<x>> \o s
    ELSE <<Head(s)>> \o Insert(x, Tail(s))

RECURSIVE Sort(_)
Sort(s) == IF s = <<>> THEN <<>> ELSE Insert(Head(s), Sort(Tail(s)))

\* the os.listdir orders tried: sorted, and one that is not
Listings == { <<"a.json", "b.json", "c.json">>, <<"c.json", "a.json", "b.json">> }

\* the config directories tried, as listing and contents: every directory
\* listed in sorted order, one also listed out of order, and one without
\* config files
Environments ==
    { <<l, d>> \in Listings \X Directories : l = Sort(l) \/ d["b.json"] = BadJson }
        \cup { <<(<<>>), AllValid>> }

\* ------------------------------------------------------------ variables
VARIABLES
    config_dir,  \* ConfigManager.config_dir: what kind of path it is
    listing,     \* os.listdir order of the config directory
    cfg,         \* file -> content
    executable,  \* ProcessManager.executable is set (a given or a resolved path)
    pc,          \* the caller: "idle" or the API call it is awaiting
    ret,         \* what the last API call returned
    max_parallel,\* connect_batch: its max_parallel argument
    semaphore,   \* connect_batch: free permits of the gate
    attempts,    \* connect_batch: one record per prepared resource
    processes,   \* ProcessManager.processes, the Supervision Set
    proc,        \* pid -> the child process (returncode, signals received)
    confirmed,   \* pids whose exit the exit poll or the monitoring loop has seen
    future,      \* wait_for_interrupt: the future the waiter awaits
    mon,         \* wait_for_interrupt: the check_processes_status task
    ctask,       \* cleanup_processes: one _cleanup_single_process task per handle
    clock        \* time units since the running timed operation began

vars == <<config_dir, listing, cfg, executable, pc, ret, max_parallel, semaphore, attempts, processes, proc,
          confirmed, future, mon, ctask, clock>>

env == <<config_dir, listing, cfg, executable>>
batch == <<max_parallel, semaphore, attempts>>
waiter == <<future, mon>>
cleaner == <<ctask, clock>>

\* ------------------------------------------- ConfigManager (config_manager.py)
\* config_dir is None, "", a path that does not exist, the path of a file, or
\* the path of a directory
DirKinds == {"none", "empty", "missing", "file", "dir"}

\* only a directory lists files
Consistent(kind, files) == kind = "dir" \/ files = <<>>

\* faulty variant: a directory without config files is valid
validate_without_listing ==
    IF config_dir \in {"none", "empty"} THEN FALSE
    ELSE IF config_dir = "missing" THEN FALSE
    ELSE IF config_dir # "dir" THEN FALSE
    ELSE TRUE

\* if not self.config_dir / not os.path.exists / not os.path.isdir /
\* not list_config_files(self.config_dir)
validate_config_dir ==
    IF config_dir \in {"none", "empty"} THEN FALSE
    ELSE IF config_dir = "missing" THEN FALSE
    ELSE IF config_dir # "dir" THEN FALSE
    ELSE IF listing = <<>> THEN FALSE
    ELSE TRUE

\* A filter pattern is the sequence of its characters; None and "" are <<>>.
NoFilter == <<>>

\* "|".join(names)
RECURSIVE Join(_)
Join(names) ==
    IF Len(names) = 0 THEN <<>>
    ELSE IF Len(names) = 1 THEN basename(names[1])
    ELSE basename(names[1]) \o <<"|">> \o Join(Tail(names))

\* the patterns connect_batch is called with: none, every choice of names of
\* the directory joined by "|" (one name alone is a regular expression that
\* finds that name only), and one that names no file
NameLists ==
    { <<"a.json">>, <<"b.json">>, <<"c.json">>, <<"a.json", "b.json">>,
      <<"a.json", "c.json">>, <<"b.json", "c.json">>, <<"a.json", "b.json", "c.json">> }

FilterInputs == {NoFilter, <<"b", "|", "c">>} \cup {Join(names) : names \in NameLists}

\* str.lower(), character by character
lower(c) == CASE c = "A" -> "a" [] c = "J" -> "j" [] OTHER -> c

\* filter_pattern.split("|"): the pieces between the bars, as a set
RECURSIVE split(_)
split(s) ==
    LET bars == {i \in 1..Len(s) : s[i] = "|"}
    IN  IF bars = {} THEN {s}
        ELSE LET b == CHOOSE i \in bars : \A j \in bars : i <= j
             IN  {SubSeq(s, 1, b - 1)} \cup split(SubSeq(s, b + 1, Len(s)))

\* re.compile(filter_pattern, re.IGNORECASE) raises re.error: of the characters
\* the patterns are written with, only "[" makes it fail (a character set
\* that is never closed)
compiles(s) == "[" \notin Range(s)

\* one alternative of a compiled pattern is found somewhere in the name: "."
\* stands for any character, any other character for itself in either case
matches_at_some(alt, name) ==
    \E k \in 0..(Len(name) - Len(alt)) :
        \A i \in 1..Len(alt) : alt[i] = "." \/ lower(alt[i]) = lower(name[k + i])

\* pattern.search(file_name)
search(s, name) == \E alt \in split(s) : matches_at_some(alt, name)

\* filter_pattern.lower() in os.path.basename(file).lower()
contains(s, name) ==
    \E k \in 0..(Len(name) - Len(s)) :
        \A i \in 1..Len(s) : lower(s[i]) = lower(name[k + i])

\* faulty variant: a bar is never taken for a separator of names
never_names(s) == FALSE

\* "|" in filter_pattern
is_name_list(s) == "|" \in Range(s)

\* faulty variant: a file is taken when a listed name is part of its name
listed_in_part(name, s) == \E piece \in split(s) : piece # <<>> /\ contains(piece, name)

\* file_name in file_patterns
listed(name, s) == name \in split(s)

apply_filter(files, filter_pattern) ==
    IF filter_pattern = <<>> THEN files
    ELSE IF is_name_list(filter_pattern)
    THEN SelectSeq(files, LAMBDA f : listed(basename(f), filter_pattern))
    ELSE IF compiles(filter_pattern)
    THEN SelectSeq(files, LAMBDA f : search(filter_pattern, basename(f)))
    ELSE SelectSeq(files, LAMBDA f : contains(filter_pattern, basename(f)))

\* faulty variant: the limit is not applied
select_unlimited(limit, filter_pattern) ==
    IF config_dir # "dir" \/ listing = <<>> THEN <<>>
    ELSE Sort(apply_filter(listing, filter_pattern))

\* faulty variant: the files are sorted before the limit is applied
select_sorted_first(limit, filter_pattern) ==
    LET filtered == Sort(apply_filter(listing, filter_pattern))
    IN  IF limit > 0 /\ Len(filtered) > limit THEN Take(filtered, limit) ELSE filtered

select_config_files(limit, filter_pattern) ==
    LET filtered == apply_filter(listing, filter_pattern)
        limited  == IF limit > 0 /\ Len(filtered) > limit
                    THEN Take(filtered, limit) ELSE filtered
    IN  IF config_dir # "dir" \/ listing = <<>> THEN <<>> ELSE Sort(limited)

\* ------------------------------------ ConnectionManager (connection.py)
\* faulty variant: a file that fails to load is kept as a resource
prepare_unloaded(f) ==
    \/ ~cfg[f].json
    \/ cfg[f].http = "string"
    \/ cfg[f].http = "object" /\ cfg[f].haslisten

\* prepare_one_resource: the file loads and its "http" member contains "listen"
prepare_one_resource(f) ==
    /\ cfg[f].json
    /\ \/ cfg[f].http = "string"
       \/ cfg[f].http = "object" /\ cfg[f].haslisten

prepare_resources(config_files) == SelectSeq(config_files, prepare_one_resource)

\* http_listen.split(":")[-1]
LastColon(s) ==
    LET at == {i \in 1..Len(s) : s[i] = ":"}
    IN  IF at = {} THEN 0 ELSE CHOOSE i \in at : \A j \in at : j <= i

LastSegment(s) == SubSeq(s, LastColon(s) + 1, Len(s))

IsInt(s) == Len(s) > 0 /\ \A i \in 1..Len(s) : s[i] \in Digits

RECURSIVE IntOf(_)
IntOf(s) ==
    IF s = <<>> THEN 0
    ELSE IntOf(SubSeq(s, 1, Len(s) - 1)) * 10 + DigitVal(s[Len(s)])

\* faulty variant: an address without a port number gets port 0
parse_port_or_zero(http_listen) ==
    IF IsInt(LastSegment(http_listen)) THEN IntOf(LastSegment(http_listen)) ELSE 0

\* int(http_listen.split(":")[-1]), Null when int() raises
parse_port(http_listen) ==
    IF IsInt(LastSegment(http_listen)) THEN IntOf(LastSegment(http_listen)) ELSE Null

\* AttemptResult records; port = Null when the dict has no "port" key
Pending == [config_file |-> "", success |-> FALSE, port |-> Null,
            http_listen |-> <<>>, error |-> "pending", code |-> Null]
Failure(f, port, error, code) ==
    [config_file |-> f, success |-> FALSE, port |-> port,
     http_listen |-> <<>>, error |-> error, code |-> code]
Success(f, port, http_listen) ==
    [config_file |-> f, success |-> TRUE, port |-> port,
     http_listen |-> http_listen, error |-> "", code |-> Null]

\* faulty variant: the gate never closes
GateOpenAlways == TRUE

\* the gate lets an attempt in
GateOpen == semaphore > 0

\* the results of the attempts ranked r and later, in the order of finishing
RECURSIVE by_rank(_, _)
by_rank(as, r) ==
    IF r > Len(as) THEN <<>>
    ELSE LET S == {i \in 1..Len(as) : as[i].rank = r /\ as[i].pc # "raised"}
         IN  (IF S = {} THEN <<>> ELSE <<as[CHOOSE i \in S : TRUE].res>>)
             \o by_rank(as, r + 1)

\* faulty variant: the results are collected in the order of finishing
collect_as_completed(as) == by_rank(as, 1)

\* gather(..., return_exceptions=True) and the loop over connection_results:
\* the results in submission order, an attempt that raised contributes nothing
RECURSIVE collect_results(_)
collect_results(as) ==
    IF as = <<>> THEN <<>>
    ELSE IF Head(as).pc = "raised" THEN collect_results(Tail(as))
    ELSE <<Head(as).res>> \o collect_results(Tail(as))

\* rank: the attempt was the rank-th of its batch to finish (0 while it runs)
NewAttempt(f) == [file |-> f, pc |-> "queued", port |-> Null, pid |-> 0, res |-> Pending,
                  rank |-> 0]

\* the next rank to hand out
NextRank == Cardinality({i \in 1..Len(attempts) : attempts[i].rank # 0}) + 1

\* faulty variant: the handle does not record the port
process_info_no_port(pid, f, port) == [process |-> pid, config_file |-> f, port |-> Null]

\* ProcessManager.launch_process: the handle appended to self.processes
process_info(pid, f, port) == [process |-> pid, config_file |-> f, port |-> port]

\* a child process: its returncode and the signals sent to it; a slot is free
\* while no Process object occupies it
NewProcess == [used |-> TRUE, rc |-> Null, sigs |-> <<>>]
Free == [used |-> FALSE, rc |-> Null, sigs |-> <<>>]
Pids == 1..MaxProcs
FreePids == {p \in Pids : ~proc[p].used}
NewPid == CHOOSE p \in FreePids : \A q \in FreePids : p <= q

\* what an API call returned: the call, connect_batch's result list, the
\* config files of the resources connect_batch had prepared, and the files it
\* had selected
Returned(op, results, prepared) ==
    [op |-> op, results |-> results, prepared |-> prepared, selected |-> <<>>]
Nothing == Returned("none", <<>>, <<>>)

NoHandle == process_info(0, "", Null)
\* the check_processes_status task: where it stands, the handle whose output it
\* reads, the rest of its snapshot, how it ended and where it was cancelled
MonOff == [pc |-> "off", cur |-> NoHandle, rest |-> <<>>, exit |-> "none", at |-> "none"]

\* a client that was constructed: its directory was not given or was valid
Init ==
    /\ \E e \in Environments : listing = e[1] /\ cfg = e[2]
    /\ config_dir \in DirKinds
    /\ Consistent(config_dir, listing)
    /\ config_dir \in {"none", "empty"} \/ validate_config_dir
    /\ executable = TRUE
    /\ pc = "idle"
    /\ ret = Nothing
    /\ max_parallel = 0
    /\ semaphore = 0
    /\ attempts = <<>>
    /\ processes = <<>>
    /\ proc = [p \in Pids |-> Free]
    /\ confirmed = {}
    /\ future = "none"
    /\ mon = MonOff
    /\ ctask = <<>>
    /\ clock = 0

\* connect_batch up to the gather of the connection tasks
\* faulty variant: an empty selection goes on to the launch
go_on_regardless(config_files) == FALSE

\* if not config_files: return []
nothing_selected(config_files) == config_files = <<>>

\* faulty variant: only zero means that there is no bound
gate_unless_zero(k, config_files) == IF k # 0 THEN k ELSE Len(config_files)

\* faulty variant: without a bound the gate has one permit
gate_of_one(k, config_files) == IF k > 0 THEN k ELSE 1

\* asyncio.Semaphore(max_parallel if max_parallel > 0 else len(config_files))
gate_size(k, config_files) == IF k > 0 THEN k ELSE Len(config_files)

\* connect_batch(limit, filter_pattern, max_parallel) up to its first await
ConnectWith(limit, filter_pattern) ==
    LET config_files == select_config_files(limit, filter_pattern)
        resources    == prepare_resources(config_files)
    IN  /\ pc = "idle"
        /\ Len(resources) <= Cardinality(FreePids)
        /\ IF nothing_selected(config_files)
           THEN /\ pc' = "idle"
                /\ ret' = Returned("connect", <<>>, <<>>)
                /\ UNCHANGED <<max_parallel, semaphore, attempts>>
           ELSE /\ pc' = "connect"
                /\ ret' = [Nothing EXCEPT !.selected = config_files]
                /\ attempts' = [i \in 1..Len(resources) |-> NewAttempt(resources[i])]
                /\ \E k \in 0..MaxParallel :
                      /\ max_parallel' = k
                      /\ semaphore' = gate_size(k, config_files)
        /\ UNCHANGED <<env, processes, proc, confirmed, waiter, cleaner>>

ConnectStart ==
    /\ pc = "idle"
    /\ \E limit \in 0..MaxLimit, filter_pattern \in FilterInputs :
          ConnectWith(limit, filter_pattern)

\* connect_with_semaphore acquires the gate and _connect_one runs to its first
\* suspension point (or to its return, or raises).  The tasks of a gather start
\* in the order given and asyncio.Semaphore wakes its waiters first come, first
\* served, so the queued attempts enter in submission order.
Acquire(i) ==
    LET f == attempts[i].file
        http_listen == IF cfg[f].haslisten THEN cfg[f].listen ELSE <<>>
        port == parse_port(http_listen)
    IN  /\ pc = "connect"
        /\ attempts[i].pc = "queued"
        /\ \A j \in 1..(i - 1) : attempts[j].pc # "queued"
        /\ GateOpen
        /\ IF cfg[f].http = "string"
           THEN \* config.get("http", {}).get: a str has no get
                /\ attempts' = [attempts EXCEPT ![i].pc = "raised", ![i].rank = NextRank]
                /\ UNCHANGED semaphore
           ELSE IF http_listen = <<>>
           THEN /\ attempts' = [attempts EXCEPT ![i].pc = "done", ![i].rank = NextRank,
                                 ![i].res = Failure(f, Null, "no_listen", Null)]
                /\ UNCHANGED semaphore
           ELSE IF port = Null
           THEN /\ attempts' = [attempts EXCEPT ![i].pc = "done", ![i].rank = NextRank,
                                 ![i].res = Failure(f, Null, "unparseable", Null)]
                /\ UNCHANGED semaphore
           ELSE /\ attempts' = [attempts EXCEPT ![i].pc = "spawning", ![i].port = port]
                /\ semaphore' = semaphore - 1
        /\ UNCHANGED <<env, pc, ret, max_parallel, processes, proc, confirmed, waiter, cleaner>>

\* faulty variant: launch_process returns the handle without adding it to the set
SpawnOkUnlisted(i) ==
    LET pid == NewPid IN
    /\ pc = "connect"
    /\ attempts[i].pc = "spawning"
    /\ proc' = [proc EXCEPT ![pid] = NewProcess]
    /\ attempts' = [attempts EXCEPT ![i].pc = "grace", ![i].pid = pid]
    /\ UNCHANGED <<env, pc, ret, max_parallel, semaphore, processes, confirmed,
                   waiter, cleaner>>

\* launch_process: create_subprocess_exec succeeded; the handle joins the set
SpawnOk(i) ==
    LET pid == NewPid IN
    /\ pc = "connect"
    /\ attempts[i].pc = "spawning"
    /\ proc' = [proc EXCEPT ![pid] = NewProcess]
    /\ processes' = Append(processes, process_info(pid, attempts[i].file, attempts[i].port))
    /\ attempts' = [attempts EXCEPT ![i].pc = "grace", ![i].pid = pid]
    /\ UNCHANGED <<env, pc, ret, max_parallel, semaphore, confirmed, waiter, cleaner>>

\* faulty variant: an attempt whose launch failed keeps its permit
SpawnFailLeaking(i) ==
    /\ pc = "connect"
    /\ attempts[i].pc = "spawning"
    /\ attempts' = [attempts EXCEPT ![i].pc = "done", ![i].rank = NextRank,
                     ![i].res = Failure(attempts[i].file, attempts[i].port, "launch", Null)]
    /\ UNCHANGED <<env, pc, ret, max_parallel, semaphore, processes, proc, confirmed, waiter, cleaner>>

\* launch_process: create_subprocess_exec raised; _connect_one records it
SpawnFail(i) ==
    /\ pc = "connect"
    /\ attempts[i].pc = "spawning"
    /\ attempts' = [attempts EXCEPT ![i].pc = "done", ![i].rank = NextRank,
                     ![i].res = Failure(attempts[i].file, attempts[i].port, "launch", Null)]
    /\ semaphore' = semaphore + 1
    /\ UNCHANGED <<env, pc, ret, max_parallel, processes, proc, confirmed, waiter, cleaner>>

\* _connect_one after asyncio.sleep(0.2): the exit poll
poll_result(a) ==
    IF proc[a.pid].rc # Null
    THEN Failure(a.file, a.port, "exited", proc[a.pid].rc)
    ELSE Success(a.file, a.port, cfg[a.file].listen)

GraceEnd(i) ==
    /\ pc = "connect"
    /\ attempts[i].pc = "grace"
    /\ attempts' = [attempts EXCEPT ![i].pc = "done", ![i].rank = NextRank,
                                     ![i].res = poll_result(attempts[i])]
    /\ semaphore' = semaphore + 1
    /\ confirmed' = IF proc[attempts[i].pid].rc # Null
                    THEN confirmed \cup {attempts[i].pid} ELSE confirmed
    /\ UNCHANGED <<env, pc, ret, max_parallel, processes, proc, waiter, cleaner>>

\* gather(*connection_tasks, return_exceptions=True)
return_exceptions == TRUE

\* connect_batch returns once every connection task has finished; without
\* return_exceptions the gather would raise what an attempt raised
ConnectReturn ==
    /\ pc = "connect"
    /\ \A i \in 1..Len(attempts) : attempts[i].pc \in {"done", "raised"}
    /\ pc' = "idle"
    /\ ret' = [Returned(IF return_exceptions
                           \/ \A i \in 1..Len(attempts) : attempts[i].pc # "raised"
                        THEN "connect" ELSE "connect_raised",
                        collect_results(attempts),
                      [i \in 1..Len(attempts) |-> attempts[i].file])
                  EXCEPT !.selected = ret.selected]
    /\ attempts' = <<>>
    /\ semaphore' = 0
    /\ max_parallel' = 0
    /\ UNCHANGED <<env, processes, proc, confirmed, waiter, cleaner>>

\* a child process exits (on its own or after a signal)
ProcExit(p) ==
    /\ proc[p].used
    /\ proc[p].rc = Null
    /\ \E code \in ExitCodes : proc' = [proc EXCEPT ![p].rc = code]
    /\ UNCHANGED <<env, pc, ret, batch, processes, confirmed, waiter, cleaner>>

\* --------------------------------------- ProcessManager (process_manager.py)
\* the Process objects of S are no longer referenced
Dropped(S) == [p \in Pids |-> IF p \in S THEN Free ELSE proc[p]]

\* subclasses of Exception; asyncio.CancelledError derives from BaseException
IsException(e) == e \in {"ValueError", "InvalidStateError", "ProcessLookupError"}

\* check_processes_status: "except asyncio.CancelledError" and "except Exception"
MonitorCatches(e) == e = "CancelledError" \/ IsException(e)

\* the task has ended: by leaving its loop (e = "none") or on exception e,
\* raised while it was suspended at `at`
MonEnded(e, at) ==
    [MonOff EXCEPT !.exit = IF e = "none" \/ MonitorCatches(e) THEN "return" ELSE "raise",
                   !.at = at]

\* faulty variant: the first handle of the snapshot is taken, exited or not
FirstOfAll(snapshot, k) == IF k > Len(snapshot) THEN 0 ELSE k

RECURSIVE FirstExited(_, _)
\* index of the first handle of the snapshot (from k on) whose returncode is set
FirstExited(snapshot, k) ==
    IF k > Len(snapshot) THEN 0
    ELSE IF proc[snapshot[k].process].rc # Null THEN k
    ELSE FirstExited(snapshot, k + 1)

RECURSIVE Remove(_, _)
\* list.remove: the list without the first element equal to x
Remove(s, x) ==
    IF s = <<>> THEN <<>>
    ELSE IF Head(s) = x THEN Tail(s)
    ELSE <<Head(s)>> \o Remove(Tail(s), x)

\* faulty variant: the loop goes on polling when the set is empty
MonScanUnresolved(snapshot, set, seen) ==
    LET k == FirstExited(snapshot, 1) IN
    IF k # 0
    THEN /\ mon' = [MonOff EXCEPT !.pc = "reading", !.cur = snapshot[k],
                     !.rest = SubSeq(snapshot, k + 1, Len(snapshot))]
         /\ confirmed' = seen \cup {snapshot[k].process}
         /\ UNCHANGED future
    ELSE /\ mon' = [MonOff EXCEPT !.pc = "sleep"]
         /\ confirmed' = seen
         /\ UNCHANGED future

\* check_processes_status: the for loop over the snapshot runs on until it must
\* await the output of an exited process, or ends; at its end the loop resolves
\* the future if the set is empty and sleeps otherwise.  set_result on a
\* future that is already cancelled raises InvalidStateError.
MonScan(snapshot, set, seen) ==
    LET k == FirstExited(snapshot, 1) IN
    IF k # 0
    THEN /\ mon' = [MonOff EXCEPT !.pc = "reading", !.cur = snapshot[k],
                     !.rest = SubSeq(snapshot, k + 1, Len(snapshot))]
         /\ confirmed' = seen \cup {snapshot[k].process}
         /\ UNCHANGED future
    ELSE /\ mon' = IF set # <<>> THEN [MonOff EXCEPT !.pc = "sleep"]
                   ELSE IF future = "pending" THEN MonEnded("none", "none")
                   ELSE MonEnded("InvalidStateError", "none")
         /\ future' = IF set = <<>> /\ future = "pending" THEN "result" ELSE future
         /\ confirmed' = seen

\* faulty variant: the waiter never takes the early return
waits_regardless == FALSE

\* wait_for_interrupt: "if not self.processes"
no_processes == processes = <<>>

\* wait_for_interrupt up to "await future"
WaitStart ==
    /\ pc = "idle"
    /\ IF no_processes
       THEN /\ ret' = Returned("wait", <<>>, <<>>)
            /\ UNCHANGED <<pc, waiter>>
       ELSE /\ pc' = "wait"
            /\ ret' = Nothing
            /\ future' = "pending"
            /\ mon' = [MonOff EXCEPT !.pc = "start"]
    /\ UNCHANGED <<env, batch, processes, proc, confirmed, cleaner>>

\* the monitoring task starts, or wakes from asyncio.sleep(1)
MonPoll ==
    /\ mon.pc \in {"start", "sleep"}
    /\ IF future # "pending"
       THEN mon' = MonEnded("none", "none") /\ UNCHANGED <<future, confirmed>>
       ELSE MonScan(processes, processes, confirmed)
    /\ UNCHANGED <<env, pc, ret, batch, processes, proc, cleaner>>

\* the exited process's output has been read: remove its handle, go on
MonRead ==
    /\ mon.pc = "reading"
    /\ IF mon.cur \in Range(processes)
       THEN /\ processes' = Remove(processes, mon.cur)
            /\ MonScan(mon.rest, processes', confirmed \ {mon.cur.process})
            /\ proc' = Dropped({mon.cur.process})
       ELSE \* list.remove raises ValueError: the loop ends in "except Exception"
            /\ mon' = MonEnded("ValueError", "none")
            /\ UNCHANGED <<processes, proc, future, confirmed>>
    /\ UNCHANGED <<env, pc, ret, batch, cleaner>>

\* the external cancellation reaches the waiter suspended at "await future":
\* the future is cancelled with it, unless the monitoring loop has resolved it
\* already and the waiter has not run yet (then both triggers are pending).
\* The monitoring task was made ready before the waiter suspended, so it has
\* taken its first step by then.
Interrupt ==
    /\ pc = "wait"
    /\ mon.pc # "start"
    /\ future \in {"pending", "result"}
    /\ future' = IF future = "pending" THEN "cancelled" ELSE "both"
    /\ UNCHANGED <<env, pc, ret, batch, processes, proc, confirmed, mon, cleaner>>

\* a _cleanup_single_process coroutine: its process, where it stands, and when
\* it began to wait for the process
NewTask(h) == [process |-> h.process, pc |-> "init", since |-> 0]

\* cleanup_processes is entered: one task per handle of the set (none when
\* the set is empty, and the call returns without suspending)
cleanup_begin(caller) ==
    /\ pc' = caller
    /\ ret' = Nothing
    /\ ctask' = [i \in 1..Len(processes) |-> NewTask(processes[i])]
    /\ clock' = 0

\* faulty variant: the waiter only handles subclasses of Exception
WaiterCatchesException(e) == IsException(e)

\* wait_for_interrupt: "except asyncio.CancelledError" around the await,
\* "except KeyboardInterrupt" and "except Exception" around the whole
WaiterCatches(e) == e \in {"CancelledError", "KeyboardInterrupt"} \/ IsException(e)

\* the finally clause: cleanup_processes runs whether the exception was handled
\* or is on its way out
AfterWait(handled) == IF handled THEN "wait_cleanup" ELSE "wait_cleanup_raise"

\* faulty variant: wait_for_interrupt returns straight from the await
WaiterWakeNoCleanup ==
    /\ pc = "wait"
    /\ future \in {"result", "cancelled", "both"}
    /\ mon' = MonOff
    /\ future' = "none"
    /\ pc' = "idle"
    /\ ret' = Returned("wait", <<>>, <<>>)
    /\ UNCHANGED <<env, batch, processes, proc, confirmed, cleaner>>

\* faulty variant: the cancellation reaches the monitoring task only in its
\* sleep: a task that is reading output goes on to remove the handle
WaiterWakeCancelInSleep ==
    LET e == IF future = "result" THEN "none" ELSE "CancelledError" IN
    /\ pc = "wait"
    /\ future \in {"result", "cancelled", "both"}
    /\ mon' = IF mon.pc \in {"off", "reading"} THEN mon ELSE MonEnded("CancelledError", mon.pc)
    /\ cleanup_begin(AfterWait(e = "none" \/ WaiterCatches(e)))
    /\ UNCHANGED <<env, batch, processes, proc, confirmed, future>>

\* faulty variant: the waiter goes on to the cleanup without cancelling the
\* monitoring task
WaiterWakeNoCancel ==
    LET e == IF future = "result" THEN "none" ELSE "CancelledError" IN
    /\ pc = "wait"
    /\ future \in {"result", "cancelled", "both"}
    /\ cleanup_begin(AfterWait(e = "none" \/ WaiterCatches(e)))
    /\ UNCHANGED <<env, batch, processes, proc, confirmed, future, mon>>

\* the waiter resumes (future resolved, or CancelledError thrown into it):
\* check_task.cancel() in the inner finally, then cleanup_processes in the
\* outer one.  A cancelled monitoring task runs nothing but its handlers.
WaiterWake ==
    LET e == IF future = "result" THEN "none" ELSE "CancelledError" IN
    /\ pc = "wait"
    /\ future \in {"result", "cancelled", "both"}
    /\ mon' = IF mon.pc = "off" THEN mon ELSE MonEnded("CancelledError", mon.pc)
    /\ cleanup_begin(AfterWait(e = "none" \/ WaiterCatches(e)))
    /\ UNCHANGED <<env, batch, processes, proc, confirmed, future>>

\* Hysteria2Client.cleanup
CleanupStart ==
    /\ pc = "idle"
    /\ cleanup_begin("cleanup")
    /\ UNCHANGED <<env, batch, processes, proc, confirmed, waiter>>

Cleaning == pc \in {"cleanup", "wait_cleanup", "wait_cleanup_raise"}

\* what the call that ran cleanup_processes hands to its caller
Outcome == CASE pc = "wait_cleanup" -> "wait"
             [] pc = "wait_cleanup_raise" -> "wait_raised"
             [] OTHER -> "cleanup"

\* a _cleanup_single_process coroutine may be running
Terminating == Cleaning \/ pc = "terminate"

\* faulty variant: the wait has no timeout
WaitForNever(start, timeout) == FALSE

\* asyncio.wait_for: the timeout set at `start` has run out
WaitForExpired(start, timeout) == clock - start >= timeout

Signal(p, sig) == [proc EXCEPT ![p].sigs = Append(@, sig)]

\* faulty variant: the terminations run one after the other
MayStartInTurn(i) == \A j \in 1..(i - 1) : ctask[j].pc = "done"

\* gather wraps every coroutine in a task at once; the tasks take their first
\* step in the order of the list, none waits for another to finish
MayStart(i) == \A j \in 1..(i - 1) : ctask[j].pc # "init"

\* faulty variant: the graceful signal is sent without looking at returncode
TermStartUnchecked(i) ==
    /\ Terminating
    /\ ctask[i].pc = "init"
    /\ MayStart(i)
    /\ proc' = Signal(ctask[i].process, "TERM")
    /\ ctask' = [ctask EXCEPT ![i].pc = "waiting", ![i].since = clock]
    /\ UNCHANGED <<env, pc, ret, batch, processes, confirmed, waiter, clock>>

\* _cleanup_single_process up to wait_for(process.wait(), 1.0); the gathered
\* tasks start in the order of the list
TermStart(i) ==
    LET p == ctask[i].process IN
    /\ Terminating
    /\ ctask[i].pc = "init"
    /\ MayStart(i)
    /\ IF proc[p].rc = Null
       THEN /\ proc' = Signal(p, "TERM")
            /\ ctask' = [ctask EXCEPT ![i].pc = "waiting", ![i].since = clock]
       ELSE /\ ctask' = [ctask EXCEPT ![i].pc = "done"]
            /\ UNCHANGED proc
    /\ UNCHANGED <<env, pc, ret, batch, processes, confirmed, waiter, clock>>

\* process.wait() completed inside the grace window
WaitExit(i) ==
    /\ Terminating
    /\ ctask[i].pc = "waiting"
    /\ proc[ctask[i].process].rc # Null
    /\ ctask' = [ctask EXCEPT ![i].pc = "done"]
    /\ UNCHANGED <<env, pc, ret, batch, processes, proc, confirmed, waiter, clock>>

\* faulty variant: the kill follows the graceful signal without the wait
ExpiredAtOnce(i) == ctask[i].pc = "waiting"

\* wait_for's timer of task i is due and its process still runs
Expired(i) ==
    /\ ctask[i].pc = "waiting"
    /\ proc[ctask[i].process].rc = Null
    /\ WaitForExpired(ctask[i].since, GraceTimeout)

\* the grace window ran out with the process still running: TimeoutError, and
\* its handler calls process.kill().  Task i set its timer after task i - 1
\* did, so the timers run out in the order of the tasks.
GraceExpire(i) ==
    /\ Terminating
    /\ Expired(i)
    /\ \A j \in 1..(i - 1) : ~Expired(j)
    /\ proc' = Signal(ctask[i].process, "KILL")
    /\ ctask' = [ctask EXCEPT ![i].pc = "done"]
    /\ UNCHANGED <<env, pc, ret, batch, processes, confirmed, waiter, clock>>

\* every coroutine of the gather has ended: normally ("done"), in its own
\* exception handler ("error"), or by raising ("raised")
\* faulty variant: the gather is over only when some coroutine of it has ended
SomeTaskDone == \E i \in 1..Len(ctask) : ctask[i].pc \in {"done", "error", "raised"}

AllTasksDone == \A i \in 1..Len(ctask) : ctask[i].pc \in {"done", "error", "raised"}

\* faulty variant: only the handles of processes seen to have exited are removed
ClearedExited == SelectSeq(processes, LAMBDA h : proc[h.process].rc = Null)

\* the set after cleanup_processes: self.processes = []
Cleared == <<>>

\* the gather finished or the overall timeout ran out: clear the set, return
CleanupFinish ==
    /\ Cleaning
    /\ AllTasksDone \/ WaitForExpired(0, OverallTimeout)
    /\ processes' = Cleared
    /\ proc' = Dropped({h.process : h \in Range(processes) \ Range(processes')})
    /\ confirmed' = {h.process : h \in Range(processes')} \cap confirmed
    /\ ctask' = <<>>
    /\ pc' = "idle"
    /\ ret' = Returned(Outcome, <<>>, <<>>)
    /\ mon' = IF mon.pc = "off" THEN MonOff ELSE mon
    /\ future' = "none"
    /\ UNCHANGED <<env, batch, clock>>

\* a coroutine can run now, or a timer is due: time does not pass before it did
Urgent ==
    \/ AllTasksDone
    \/ Cleaning /\ WaitForExpired(0, OverallTimeout)
    \/ \E i \in 1..Len(ctask) :
          \/ ctask[i].pc = "init" /\ MayStart(i)
          \/ ctask[i].pc = "waiting" /\ proc[ctask[i].process].rc # Null
          \/ Expired(i)

\* time passes while every cleanup coroutine is suspended
Tick ==
    /\ Terminating
    /\ ~Urgent
    /\ clock < MaxClock
    /\ clock' = clock + 1
    /\ UNCHANGED <<env, pc, ret, batch, processes, proc, confirmed, waiter, ctask>>

\* ------------------------------------------- the supervisor on its own
\* _cleanup_single_process called on one handle of the set
TerminateCall(k) ==
    /\ pc = "idle"
    /\ k \in 1..Len(processes)
    /\ Len(proc[processes[k].process].sigs) + 2 <= MaxSigs
    /\ pc' = "terminate"
    /\ ctask' = <<NewTask(processes[k])>>
    /\ clock' = 0
    /\ UNCHANGED <<env, ret, batch, processes, proc, confirmed, waiter>>

TerminateReturn ==
    /\ pc = "terminate"
    /\ AllTasksDone
    /\ pc' = "idle"
    /\ ctask' = <<>>
    /\ ret' = Returned("terminate", <<>>, <<>>)
    /\ UNCHANGED <<env, batch, processes, proc, confirmed, waiter, clock>>

FileOf(i) == <<"a.json", "b.json", "c.json">>[((i - 1) % 3) + 1]

Exited == [used |-> TRUE, rc |-> 0, sigs |-> <<>>]

\* faulty variant: _cleanup_single_process has no exception handler
cleanup_catches_nothing(e) == FALSE

\* _cleanup_single_process: "except Exception" around its whole body
cleanup_catches(e) == IsException(e)

\* process.terminate() raises (the child is gone though no returncode was
\* recorded): the handler logs it and the coroutine ends
TermError(i) ==
    /\ Terminating
    /\ ctask[i].pc = "init"
    /\ MayStart(i)
    /\ proc[ctask[i].process].rc = Null
    /\ ctask' = [ctask EXCEPT ![i].pc = IF cleanup_catches("ProcessLookupError")
                                        THEN "error" ELSE "raised"]
    /\ UNCHANGED <<env, pc, ret, batch, processes, proc, confirmed, waiter, clock>>

\* a client whose set holds the handles of n launched processes, running or
\* already exited
TermInit ==
    /\ config_dir = "dir"
    /\ listing = <<"a.json", "b.json", "c.json">>
    /\ cfg = AllValid
    /\ executable = TRUE
    /\ pc = "idle"
    /\ ret = Nothing
    /\ max_parallel = 0
    /\ semaphore = 0
    /\ attempts = <<>>
    /\ \E n \in 1..MaxProcs :
          /\ processes = [i \in 1..n |->
                            process_info(i, FileOf(i), parse_port(AllValid[FileOf(i)].listen))]
          /\ proc \in {f \in [Pids -> {NewProcess, Exited, Free}] :
                          \A q \in Pids : f[q].used <=> q <= n}
    /\ confirmed = {}
    /\ future = "none"
    /\ mon = MonOff
    /\ ctask = <<>>
    /\ clock = 0

TermNext ==
    \/ WaitStart
    \/ MonPoll
    \/ MonRead
    \/ Interrupt
    \/ WaiterWake
    \/ CleanupStart
    \/ \E k \in 1..Len(processes) : TerminateCall(k)
    \/ TerminateReturn
    \/ \E i \in 1..Len(ctask) : TermStart(i)
    \/ \E i \in 1..Len(ctask) : WaitExit(i)
    \/ \E i \in 1..Len(ctask) : GraceExpire(i)
    \/ CleanupFinish
    \/ Tick
    \/ \E q \in Pids : ProcExit(q)

\* the event loop runs every coroutine that can run, and time passes
TermProgress ==
    \/ \E i \in 1..Len(ctask) : TermStart(i) \/ WaitExit(i) \/ GraceExpire(i)
    \/ CleanupFinish
    \/ TerminateReturn
    \/ Tick

\* a task the event loop has made ready runs; the poll sleep ends
TermSpec ==
    /\ TermInit
    /\ [][TermNext]_vars
    /\ WF_vars(TermProgress)
    /\ WF_vars(MonPoll)
    /\ WF_vars(MonRead)
    /\ WF_vars(WaiterWake)

\* cleanup_processes, called directly or at the end of wait_for_interrupt,
\* with terminations that fail
FaultNext ==
    \/ WaitStart
    \/ MonPoll
    \/ MonRead
    \/ Interrupt
    \/ WaiterWake
    \/ CleanupStart
    \/ \E i \in 1..Len(ctask) : TermStart(i)
    \/ \E i \in 1..Len(ctask) : TermError(i)
    \/ \E i \in 1..Len(ctask) : WaitExit(i)
    \/ \E i \in 1..Len(ctask) : GraceExpire(i)
    \/ CleanupFinish
    \/ Tick
    \/ \E q \in Pids : ProcExit(q)

FaultSpec ==
    /\ TermInit
    /\ [][FaultNext]_vars
    /\ WF_vars(TermProgress)
    /\ WF_vars(MonPoll)
    /\ WF_vars(MonRead)
    /\ WF_vars(WaiterWake)

Next ==
    \/ ConnectStart
    \/ \E i \in 1..Len(attempts) : Acquire(i)
    \/ \E i \in 1..Len(attempts) : SpawnOk(i)
    \/ \E i \in 1..Len(attempts) : SpawnFail(i)
    \/ \E i \in 1..Len(attempts) : GraceEnd(i)
    \/ ConnectReturn
    \/ \E p \in Pids : ProcExit(p)
    \/ WaitStart
    \/ MonPoll
    \/ MonRead
    \/ Interrupt
    \/ WaiterWake
    \/ CleanupStart
    \/ \E i \in 1..Len(ctask) : TermStart(i)
    \/ \E i \in 1..Len(ctask) : WaitExit(i)
    \/ \E i \in 1..Len(ctask) : GraceExpire(i)
    \/ CleanupFinish
    \/ Tick

Spec == Init /\ [][Next]_vars

\* ------------------------------------------------ construction (client.py)
\* faulty variant: the constructor does not look at the executable
ConstructUnchecked ==
    \E given \in BOOLEAN, found \in BOOLEAN :
        /\ pc = "new"
        /\ executable' = (given \/ found)
        /\ IF config_dir \notin {"none", "empty"} /\ ~validate_config_dir
           THEN pc' = "failed" /\ ret' = Returned("ValueError", <<>>, <<>>)
           ELSE pc' = "idle" /\ UNCHANGED ret
        /\ UNCHANGED <<config_dir, listing, cfg, batch, processes, proc, confirmed, waiter, cleaner>>

\* Hysteria2Client.__init__: ProcessManager.__init__ takes the given path or
\* resolves one and raises FileNotFoundError when there is none; then the
\* config directory is validated
Construct ==
    \E given \in BOOLEAN, found \in BOOLEAN :
        /\ pc = "new"
        /\ executable' = (given \/ found)
        /\ IF ~executable'
           THEN pc' = "failed" /\ ret' = Returned("FileNotFoundError", <<>>, <<>>)
           ELSE IF config_dir \notin {"none", "empty"} /\ ~validate_config_dir
           THEN pc' = "failed" /\ ret' = Returned("ValueError", <<>>, <<>>)
           ELSE pc' = "idle" /\ UNCHANGED ret
        /\ UNCHANGED <<config_dir, listing, cfg, batch, processes, proc, confirmed, waiter, cleaner>>

\* before Hysteria2Client(...) is called
ClientInit ==
    /\ \E e \in Environments : listing = e[1] /\ cfg = e[2]
    /\ config_dir \in DirKinds
    /\ Consistent(config_dir, listing)
    /\ executable = FALSE
    /\ pc = "new"
    /\ ret = Nothing
    /\ max_parallel = 0
    /\ semaphore = 0
    /\ attempts = <<>>
    /\ processes = <<>>
    /\ proc = [p \in Pids |-> Free]
    /\ confirmed = {}
    /\ future = "none"
    /\ mon = MonOff
    /\ ctask = <<>>
    /\ clock = 0

ClientNext == Construct \/ Next

ClientSpec == ClientInit /\ [][ClientNext]_vars

\* ------------------------------------------------------- main (main.py)
\* main() from the construction of the client on, in both of its flows:
\*     client = Hysteria2Client(...)
\*     try:     await client.batch_connect(filter_pattern=...)
\*              await client.wait_for_interrupt()
\*     except Exception: print
\*     finally: await client.cleanup()
\* Ctrl+C cancels the main task at the await it is suspended in.  The
\* interrupts modelled are those that reach batch_connect and
\* wait_for_interrupt, the cleanup at the end of wait_for_interrupt included;
\* none arrives while the cleanup of main's finally clause runs.

\* the client was constructed on the output directory of the converter
MainInit == Init /\ config_dir = "dir"

\* batch_connect(filter_pattern=...): limit and max_parallel keep their default 0
MainConnect ==
    /\ pc = "idle"
    /\ ret = Nothing
    /\ \E filter_pattern \in FilterInputs \ {NoFilter} :
          ConnectWith(0, filter_pattern) /\ max_parallel' = 0

\* the second flow finds no config file for the ports drawn and returns from
\* inside the try block
MainNoFiles ==
    /\ pc = "idle"
    /\ ret = Nothing
    /\ ret' = Returned("no_files", <<>>, <<>>)
    /\ UNCHANGED <<env, pc, batch, processes, proc, confirmed, waiter, cleaner>>

\* main is cancelled while it awaits the gather of connect_batch: the gather
\* cancels every attempt that has not finished, and CancelledError leaves
\* connect_batch once they have ended.  An attempt cancelled inside
\* create_subprocess_exec has no child: the event loop closes the transport
\* of a subprocess whose creation is cancelled, and that kills it.  An
\* attempt cancelled in its sleep had its handle added by launch_process.
ConnectCancel ==
    /\ pc = "connect"
    /\ pc' = "idle"
    /\ ret' = [Returned("connect_cancelled", <<>>, <<>>) EXCEPT !.selected = ret.selected]
    /\ attempts' = <<>>
    /\ semaphore' = 0
    /\ max_parallel' = 0
    /\ UNCHANGED <<env, processes, proc, confirmed, waiter, cleaner>>

\* await client.wait_for_interrupt(), after batch_connect returned
MainWait ==
    /\ ret.op = "connect"
    /\ WaitStart

\* main is cancelled again while wait_for_interrupt is in cleanup_processes:
\* wait_for cancels the gather and its coroutines (one that has not taken its
\* first step never runs), CancelledError leaves cleanup_processes before the
\* set is cleared, and leaves wait_for_interrupt
CleanupCancel ==
    /\ pc \in {"wait_cleanup", "wait_cleanup_raise"}
    /\ pc' = "idle"
    /\ ret' = Returned("wait_cancelled", <<>>, <<>>)
    /\ ctask' = <<>>
    /\ future' = "none"
    /\ mon' = IF mon.pc = "off" THEN MonOff ELSE mon
    /\ UNCHANGED <<env, batch, processes, proc, confirmed, clock>>

\* the ways main leaves its try block: the early return, an exception or a
\* cancellation out of batch_connect, wait_for_interrupt returning, raising
\* or cancelled
TryLeft == {"no_files", "connect_raised", "connect_cancelled", "wait", "wait_raised",
            "wait_cancelled"}

\* faulty variant: the cleanup follows the try statement, and a cancellation
\* passes it by
cleanup_after_try(op) == op \in TryLeft \ {"connect_cancelled"}

\* finally: await client.cleanup() runs whichever way the try block was left
finally_cleanup(op) == op \in TryLeft

\* main leaves the try block
MainFinally ==
    /\ pc = "idle"
    /\ ret.op \in TryLeft
    /\ IF finally_cleanup(ret.op)
       THEN CleanupStart
       ELSE /\ pc' = "returned"
            /\ UNCHANGED <<env, ret, batch, processes, proc, confirmed, waiter, cleaner>>

\* client.cleanup() has returned: main returns (or the exception goes on)
MainReturn ==
    /\ pc = "idle"
    /\ ret.op = "cleanup"
    /\ pc' = "returned"
    /\ UNCHANGED <<env, ret, batch, processes, proc, confirmed, waiter, cleaner>>

MainNext ==
    \/ MainConnect
    \/ MainNoFiles
    \/ \E i \in 1..Len(attempts) : Acquire(i)
    \/ \E i \in 1..Len(attempts) : SpawnOk(i)
    \/ \E i \in 1..Len(attempts) : SpawnFail(i)
    \/ \E i \in 1..Len(attempts) : GraceEnd(i)
    \/ ConnectReturn
    \/ ConnectCancel
    \/ \E p \in Pids : ProcExit(p)
    \/ MainWait
    \/ MonPoll
    \/ MonRead
    \/ Interrupt
    \/ WaiterWake
    \/ CleanupCancel
    \/ MainFinally
    \/ \E i \in 1..Len(ctask) : TermStart(i)
    \/ \E i \in 1..Len(ctask) : WaitExit(i)
    \/ \E i \in 1..Len(ctask) : GraceExpire(i)
    \/ CleanupFinish
    \/ Tick
    \/ MainReturn

\* once main has left the try block the event loop runs what is ready and the
\* timers of the cleanup run out
MainProgress ==
    \/ MainFinally
    \/ \E i \in 1..Len(ctask) : TermStart(i) \/ WaitExit(i) \/ GraceExpire(i)
    \/ CleanupFinish
    \/ Tick
    \/ MainReturn

MainSpec == MainInit /\ [][MainNext]_vars /\ WF_vars(MainProgress)

\* ------------------------------------------------- batches on their own
\* connect_batch called again and again on one client, never cleaned up.  The
\* event loop runs every task that is ready, and create_subprocess_exec and
\* asyncio.sleep(0.2) come back: a batch that can take a step takes one.
BatchProgress ==
    \/ \E i \in 1..Len(attempts) : Acquire(i)
    \/ \E i \in 1..Len(attempts) : SpawnOk(i)
    \/ \E i \in 1..Len(attempts) : SpawnFail(i)
    \/ \E i \in 1..Len(attempts) : GraceEnd(i)
    \/ ConnectReturn

BatchNext ==
    \/ ConnectStart
    \/ \E i \in 1..Len(attempts) : Acquire(i)
    \/ \E i \in 1..Len(attempts) : SpawnOk(i)
    \/ \E i \in 1..Len(attempts) : SpawnFail(i)
    \/ \E i \in 1..Len(attempts) : GraceEnd(i)
    \/ ConnectReturn
    \/ \E p \in Pids : ProcExit(p)

\* the directories with two prepared entries: both launch a process, or one
\* launches and the other raises
BatchInit ==
    /\ Init
    /\ listing = Sort(listing)
    /\ cfg["b.json"] \in {BadJson, HttpStr}

BatchSpec == BatchInit /\ [][BatchNext]_vars /\ WF_vars(BatchProgress)

\* ------------------------------------------------- selection on its own
\* select_config_files called on directories with names that differ in case,
\* contain one another or contain a pattern character, with every short
\* pattern over PatternChars and some lists of names.
PatternChars == {"a", "A", "b", ".", "|", "["}

ShortPatterns == UNION { [1..n -> PatternChars] : n \in 0..MaxPattern }

LongPatterns ==
    { basename("a.json"),
      Join(<<"a.json", "b.json">>),
      Join(<<"A.json", "b.json">>),
      Join(<<"ab.json", "c.json">>),
      Join(<<"b.json", "[a.json">>),
      basename("a.json") \o <<"|">>,
      <<"a", ".", "j", "|", "b", ".", "j">>,
      <<"[", "a", ".", "J">> }

SelectPatterns == ShortPatterns \cup LongPatterns

SelectListings ==
    { <<"c.json", "[a.json", "A.json", "ab.json", "a.json", "b.json">>,
      <<"b.json", "a.json", "c.json">>,
      <<"ab.json", "A.json">>,
      <<>> }

\* what a call of select_config_files was given and what it returned
Selection(limit, filter_pattern, files) ==
    [op |-> "select", limit |-> limit, filter_pattern |-> filter_pattern,
     selected |-> files, results |-> <<>>, prepared |-> <<>>]

SelectInit ==
    /\ listing \in SelectListings
    /\ config_dir \in DirKinds
    /\ Consistent(config_dir, listing)
    /\ cfg = [f \in Range(listing) |-> WithListen(Addr1)]
    /\ executable = TRUE
    /\ pc = "idle"
    /\ ret = Nothing
    /\ max_parallel = 0
    /\ semaphore = 0
    /\ attempts = <<>>
    /\ processes = <<>>
    /\ proc = [p \in Pids |-> Free]
    /\ confirmed = {}
    /\ future = "none"
    /\ mon = MonOff
    /\ ctask = <<>>
    /\ clock = 0

\* the values of limit and max_parallel that stand for "no bound": the default
\* 0, and a negative number
Unbounded == {-1, 0}

\* connect_batch as far as the gate: the files are selected and, unless there
\* are none, the semaphore is created.  One call per directory: the selection
\* reads the directory and nothing else, a second call would return what the
\* first returned.
Select ==
    /\ pc = "idle"
    /\ ret = Nothing
    /\ \E limit \in Unbounded \cup 1..MaxSelect, filter_pattern \in SelectPatterns,
          k \in Unbounded \cup 1..MaxParallel :
          LET config_files == select_config_files(limit, filter_pattern)
          IN  /\ ret' = Selection(limit, filter_pattern, config_files)
              /\ max_parallel' = k
              /\ semaphore' = IF nothing_selected(config_files) THEN 0
                               ELSE gate_size(k, config_files)
    /\ UNCHANGED <<env, pc, attempts, processes, proc, confirmed, waiter, cleaner>>

SelectSpec == SelectInit /\ [][Select]_vars

\* ------------------------------------ ProxyConverter (proxy_converter.py)
\* str(n) for n >= 0, as the characters of the decimal numeral
DecimalDigits == <<"0", "1", "2", "3", "4", "5", "6", "7", "8", "9">>
RECURSIVE str(_)
str(n) == IF n < 10 THEN <<DecimalDigits[n + 1]>>
          ELSE str(n \div 10) \o <<DecimalDigits[(n % 10) + 1]>>

\* f"127.0.0.1:{port}"
Localhost == <<"1", "2", "7", ".", "0", ".", "0", ".", "1">>
listen_address(port) == Localhost \o <<":">> \o str(port)

\* the proxies of the profile: server names that share their first label,
\* one without a dot, and a proxy of another type
Servers == { <<"a", ".", "x">>, <<"a", ".", "y">>, <<"b", ".", "x">>, <<"c">> }
Proxies == { [type |-> "hysteria2", server |-> s] : s \in Servers }
              \cup { [type |-> "ss", server |-> <<"a", ".", "x">>] }
ProxyLists == UNION { [1..n -> Proxies] : n \in 0..MaxProxies }

\* get_proxy_by_type
get_proxy_by_type(proxies, proxy_type) ==
    SelectSeq(proxies, LAMBDA p : p.type = proxy_type)

\* proxy.get('server', 'unknown').split('.')[0]
RECURSIVE server_prefix(_)
server_prefix(server) ==
    IF server = <<>> \/ Head(server) = "." THEN <<>>
    ELSE <<Head(server)>> \o server_prefix(Tail(server))

\* os.path.join(output_dir, f"{server_prefix}.json")
filepath(proxy) ==
    CHOOSE f \in FileNames \cup OtherNames :
        basename(f) = server_prefix(proxy.server) \o Json

\* faulty variant: every file gets the default port of generate_hysteria2_config
default_port(i) == start_port

\* ports = [start_port + i for i in range(len(proxies))]
ports(i) == start_port + i

\* what writing one file comes to: the file is written; open() raises and the
\* file is as it was; json.dump raises and the file is left cut short
WriteOutcomes == {"written", "open_failed", "dump_failed"}

\* the output directory and what generate_all_configs has done to it so far:
\* written maps each file the run opened to the index of the last proxy that
\* opened it, results are the paths the tasks returned
OutputDir(kind, files, contents) ==
    [kind |-> kind, listing |-> files, cfg |-> contents,
     written |-> <<>>, results |-> <<>>]

\* generate_hysteria2_config(proxy, output_dir, port) for the proxy of index i
generate_hysteria2_config(dir, proxy, i, outcome) ==
    LET f == filepath(proxy)
        content == IF outcome = "written" THEN WithListen(listen_address(ports(i)))
                   ELSE BadJson
        opened == outcome # "open_failed"
    IN  [kind |-> "dir",
         listing |-> IF opened /\ f \notin Range(dir.listing)
                     THEN Append(dir.listing, f) ELSE dir.listing,
         cfg |-> IF opened
                 THEN [g \in DOMAIN dir.cfg \cup {f} |->
                          IF g = f THEN content ELSE dir.cfg[g]]
                 ELSE dir.cfg,
         written |-> IF opened
                     THEN [g \in DOMAIN dir.written \cup {f} |->
                              IF g = f THEN i ELSE dir.written[g]]
                     ELSE dir.written,
         results |-> IF outcome = "written" THEN Append(dir.results, f)
                     ELSE dir.results]

\* the tasks of the gather, which run one after the other in the order of the
\* proxies: none of them suspends
RECURSIVE gather_configs(_, _, _, _)
gather_configs(dir, proxies, outcomes, k) ==
    IF k > Len(proxies) THEN dir
    ELSE gather_configs(generate_hysteria2_config(dir, proxies[k], k - 1, outcomes[k]),
                        proxies, outcomes, k + 1)

\* what a run of generate_all_configs was given and what it did
Generated(proxies, dir) ==
    [op |-> "generate", proxies |-> proxies, written |-> dir.written,
     results |-> dir.results, prepared |-> <<>>, selected |-> <<>>]

\* the output directory does not exist, or is left from an earlier run with
\* one file in it
ConvertInit ==
    /\ config_dir \in {"missing", "dir"}
    /\ listing = IF config_dir = "dir" THEN <<"c.json">> ELSE <<>>
    /\ cfg = [f \in Range(listing) |-> WithListen(listen_address(ports(0)))]
    /\ executable = TRUE
    /\ pc = "idle"
    /\ ret = Nothing
    /\ max_parallel = 0
    /\ semaphore = 0
    /\ attempts = <<>>
    /\ processes = <<>>
    /\ proc = [p \in Pids |-> Free]
    /\ confirmed = {}
    /\ future = "none"
    /\ mon = MonOff
    /\ ctask = <<>>
    /\ clock = 0

\* generate_all_configs('hysteria2', output_dir), once per profile
Generate ==
    /\ pc = "idle"
    /\ ret = Nothing
    /\ \E all \in ProxyLists :
          LET proxies == get_proxy_by_type(all, "hysteria2") IN
          \E outcomes \in [1..Len(proxies) -> WriteOutcomes] :
             LET dir == gather_configs(OutputDir(config_dir, listing, cfg),
                                       proxies, outcomes, 1)
             IN  /\ config_dir' = dir.kind
                 /\ listing' = dir.listing
                 /\ cfg' = dir.cfg
                 /\ ret' = Generated(all, dir)
    /\ UNCHANGED <<executable, pc, batch, processes, proc, confirmed, waiter, cleaner>>

ConvertSpec == ConvertInit /\ [][Generate]_vars

\* ------------------------------------------------------------ the claims
InFlight == Cardinality({i \in 1..Len(attempts) : attempts[i].pc \in {"spawning", "grace"}})

Handles == Range(processes)

Results == Range(ret.results)

\* C1: during connect_batch with max_parallel = k > 0, at most k attempts hold
\* the gate (are inside _connect_one) at any time.
C1_GateBound == (pc = "connect" /\ max_parallel > 0) => InFlight <= max_parallel

C1_Witness ==
    /\ pc = "connect"
    /\ max_parallel = 2
    /\ InFlight = 2
    /\ \E i \in 1..Len(attempts) : attempts[i].pc = "queued"

\* C2: every prepared entry contributes exactly one AttemptResult to the list
\* connect_batch returns, an attempt that raised included.
C2_EveryAttemptReported ==
    ret.op = "connect" =>
        /\ Len(ret.results) = Len(ret.prepared)
        /\ \A f \in Range(ret.prepared) :
              Cardinality({i \in 1..Len(ret.results) : ret.results[i].config_file = f}) = 1

\* C3: when connect_batch returns, no handle for the config path of a failed
\* attempt is in the Supervision Set.
C3_FailedLeaveNoHandle ==
    ret.op = "connect" =>
        \A r \in Results : ~r.success => \A h \in Handles : h.config_file # r.config_file

RECURSIVE Decimal(_)
\* the decimal digits of n
Decimal(n) ==
    LET d == CHOOSE c \in Digits : DigitVal(c) = n % 10
    IN  IF n < 10 THEN <<d>> ELSE Decimal(n \div 10) \o <<d>>

\* the address ends in ":" followed by the digits of port
EndsInPort(http_listen, port) ==
    /\ port >= 0
    /\ \E k \in 1..Len(http_listen) :
          /\ http_listen[k] = ":"
          /\ SubSeq(http_listen, k + 1, Len(http_listen)) = Decimal(port)

\* C4: when connect_batch returns, every successful result has a handle in the
\* Supervision Set with its config path and its port, the port written after
\* the last ":" of the entry's listen address.
C4_SuccessHasHandle ==
    ret.op = "connect" =>
        \A r \in Results : r.success =>
            /\ \E h \in Handles : h.config_file = r.config_file /\ h.port = r.port
            /\ EndsInPort(cfg[r.config_file].listen, r.port)

C4_Witness ==
    /\ ret.op = "connect"
    /\ \E r \in Results : r.success /\ r.port = 10
    /\ \E r \in Results : ~r.success

\* C5: the Supervision Set never holds two handles of the same config path
\* whose processes are both live.
C5_OneLiveHandlePerPath ==
    \A i, j \in 1..Len(processes) :
        (/\ i # j
         /\ processes[i].config_file = processes[j].config_file
         /\ proc[processes[i].process].rc = Null)
        => proc[processes[j].process].rc # Null

\* C6: no handle in the Supervision Set belongs to a process whose exit the
\* post-grace exit poll or the monitoring loop has observed.
C6_SetHoldsUnconfirmed == \A h \in Handles : h.process \notin confirmed

\* C7: whenever cleanup_processes returns (called directly or by
\* wait_for_interrupt), the Supervision Set is empty.
C7_CleanupEmptiesSet == ret.op \in {"cleanup", "wait"} => processes = <<>>

\* cleanup returned after a process sat out the grace window
C7_Witness == ret.op = "cleanup" /\ clock = GraceTimeout /\ processes = <<>>

\* C8: cleanup_processes always returns, no later than the overall timeout,
\* also when supervised processes never respond to the graceful signal.
C8_CleanupReturnsInTime ==
    /\ [](Cleaning => clock <= OverallTimeout)
    /\ (Cleaning ~> pc = "idle")

\* an unresponsive process was force-killed at the end of its grace window
C8_Witness ==
    /\ Cleaning
    /\ clock = GraceTimeout
    /\ \E q \in Pids : proc[q].sigs = <<"TERM", "KILL">> /\ proc[q].rc = Null

\* C9: the force-kill is sent only after the graceful signal, only when the
\* grace timeout has run out, and only to a process still running then.
C9_GracefulThenKill ==
    /\ [](\A q \in Pids : \A k \in 1..Len(proc[q].sigs) :
            proc[q].sigs[k] = "KILL" => k > 1 /\ proc[q].sigs[k - 1] = "TERM")
    /\ [][\A i \in 1..Len(ctask) :
            LET q == ctask[i].process IN
            proc'[q].sigs = Append(proc[q].sigs, "KILL") =>
                /\ ctask[i].pc = "waiting"
                /\ proc[q].rc = Null
                /\ clock - ctask[i].since >= GraceTimeout]_vars

\* one process was killed at the timeout, another exited inside its window
C9_Witness ==
    /\ \E q \in Pids : proc[q].sigs = <<"TERM", "KILL">>
    /\ \E i \in 1..Len(ctask) :
          /\ ctask[i].pc = "done"
          /\ proc[ctask[i].process].sigs = <<"TERM">>
          /\ proc[ctask[i].process].rc # Null

\* a step in which task i runs to its first suspension point or to its end
Starts(i) == i \in DOMAIN ctask' /\ ctask[i].pc = "init" /\ ctask'[i].pc # "init"

\* C10 as stated: terminating a handle whose process has exited, or a handle
\* that was terminated before, sends no signal and changes no state.
C10_TwiceIsOnce ==
    [][\A i \in 1..Len(ctask) :
         LET q == ctask[i].process IN
         (Starts(i) /\ (proc[q].rc # Null \/ proc[q].sigs # <<>>)) =>
             (proc' = proc /\ processes' = processes)]_vars

\* C10 as amended: terminating a handle whose process has exited sends no
\* signal and changes no state; a handle whose returncode is still unset
\* receives the graceful signal, also when it was terminated before.
C10_NoOpOnceExited ==
    [][\A i \in 1..Len(ctask) :
         LET q == ctask[i].process IN
         Starts(i) =>
             IF proc[q].rc # Null
             THEN proc' = proc /\ processes' = processes
             ELSE proc'[q].sigs = Append(proc[q].sigs, "TERM")]_vars

\* a second termination of a handle whose process exited in the first one's
\* grace window has run and sent nothing
C10_Witness ==
    /\ pc = "terminate"
    /\ ret.op = "terminate"
    /\ ctask[1].pc = "done"
    /\ proc[ctask[1].process].sigs = <<"TERM">>
    /\ proc[ctask[1].process].rc # Null

\* C11: cleanup_processes starts one termination per handle of the set, all
\* of them at once: no time passes before every handle had its turn, every
\* grace window opens at the start, and every handle still running then has
\* received the graceful signal.
C11_AllTerminatedAtOnce ==
    Cleaning =>
        /\ Len(ctask) = Len(processes)
        /\ \A i \in 1..Len(ctask) :
              /\ ctask[i].process = processes[i].process
              /\ ctask[i].pc = "init" => clock = 0
              /\ ctask[i].pc = "waiting" => ctask[i].since = 0
              /\ ctask[i].pc # "init" =>
                    \/ proc[ctask[i].process].rc # Null
                    \/ "TERM" \in Range(proc[ctask[i].process].sigs)

\* three running processes have all been signalled before any time passed
C11_Witness ==
    /\ Cleaning
    /\ clock = 0
    /\ Len(ctask) = 3
    /\ \A i \in 1..Len(ctask) :
          /\ ctask[i].pc = "waiting"
          /\ proc[ctask[i].process].sigs = <<"TERM">>
          /\ proc[ctask[i].process].rc = Null

\* where a wait_for_interrupt call stands
Waiting == pc \in {"wait", "wait_cleanup", "wait_cleanup_raise"}

Phase ==
    CASE pc = "wait" /\ future = "pending" -> "Monitoring"
      [] pc = "wait" /\ future \in {"result", "both"} -> "AllExited"
      [] pc = "wait" /\ future = "cancelled" -> "Interrupted"
      [] pc = "wait_cleanup" -> "CleaningUp"
      [] pc = "wait_cleanup_raise" -> "Failing"
      [] pc = "idle" /\ ret.op = "wait" -> "Done"
      [] OTHER -> "Running"

Transitions ==
    { <<"Running", "Monitoring">>, <<"Done", "Monitoring">>,
      <<"Monitoring", "AllExited">>, <<"Monitoring", "Interrupted">>,
      <<"AllExited", "CleaningUp">>, <<"Interrupted", "CleaningUp">>,
      <<"CleaningUp", "Done">> }

\* C12: a wait_for_interrupt call on a non-empty set moves only along
\* Running -> Monitoring -> (AllExited | Interrupted) -> CleaningUp -> Done;
\* the waiter is released by the resolved future only when the set is empty,
\* and an interrupt that races with it changes nothing of the path.
C12_WaitTransitions ==
    /\ [](Phase = "AllExited" => processes = <<>>)
    /\ [][(Waiting \/ Waiting') =>
            (Phase' = Phase \/ <<Phase, Phase'>> \in Transitions)]_vars

\* cleanup runs after the interrupt arrived on top of the resolved future
C12_Witness == pc = "wait_cleanup" /\ future = "both"

\* C13: a cancellation delivered while the waiter awaits the future, or while
\* the monitoring loop sleeps or reads the output of an exited process, is
\* caught: neither coroutine ends by raising, and wait_for_interrupt goes on
\* to cleanup and returns normally.
C13_CancellationCaught ==
    /\ mon.exit # "raise"
    /\ pc # "wait_cleanup_raise"
    /\ ret.op # "wait_raised"
    /\ (Waiting /\ mon.at # "none") => (pc = "wait_cleanup" /\ mon.exit = "return")

\* the interrupt found the monitoring loop reading an exited process's output
C13_Witness == pc = "wait_cleanup" /\ future = "cancelled" /\ mon.at = "reading"

\* every supervised process has exited
AllExited == \A h \in Handles : proc[h.process].rc # Null

\* C14: while wait_for_interrupt runs, once every supervised process has
\* exited, or once an interrupt was delivered, the call eventually returns,
\* and it returns with the set empty.
C14_WaitReturns ==
    /\ (pc = "wait" /\ AllExited) ~> (pc = "idle" /\ ret.op = "wait" /\ processes = <<>>)
    /\ (pc = "wait" /\ future \in {"cancelled", "both"})
          ~> (pc = "idle" /\ ret.op = "wait" /\ processes = <<>>)

\* the monitoring loop has removed the last handle and released the waiter
C14_Witness ==
    /\ pc = "wait"
    /\ future = "result"
    /\ processes = <<>>
    /\ mon.exit = "return"

\* the file loads and its http section has a listen member
HasListen(f) == cfg[f].json /\ cfg[f].http = "object" /\ cfg[f].haslisten

MissingListen(f) ==
    /\ cfg[f].json
    /\ \/ cfg[f].http = "absent"
       \/ cfg[f].http = "object" /\ (~cfg[f].haslisten \/ cfg[f].listen = <<>>)

\* C16: a selected entry without a local-listen address yields exactly one
\* failed result with the address error, and no process is launched for it.
C16_MissingListenFails ==
    ret.op = "connect" =>
        \A f \in Range(ret.selected) : MissingListen(f) =>
            /\ \A h \in Handles : h.config_file # f
            /\ Cardinality({i \in 1..Len(ret.results) : ret.results[i].config_file = f}) = 1
            /\ \A r \in Results : r.config_file = f => (~r.success /\ r.error = "no_listen")

\* the listen address is there and what follows its last ":" is no number
NoPortNumber(f) ==
    /\ HasListen(f)
    /\ cfg[f].listen # <<>>
    /\ ~IsInt(LastSegment(cfg[f].listen))

\* C17: a prepared entry whose listen address has no parseable port gives one
\* failed result without a port, and its attempt launches nothing and leaves
\* the set as it was.
C17_NoPortNoLaunch ==
    /\ [](ret.op = "connect" =>
            \A f \in Range(ret.prepared) : NoPortNumber(f) =>
               /\ \A h \in Handles : h.config_file # f
               /\ \E r \in Results :
                     /\ r.config_file = f
                     /\ ~r.success
                     /\ r.port = Null
                     /\ r.error = "unparseable")
    /\ [][\A i \in 1..Len(attempts) :
            (pc = "connect" /\ pc' = "connect" /\ NoPortNumber(attempts[i].file)
                /\ attempts[i].pc = "queued" /\ attempts'[i].pc # "queued") =>
                    (attempts'[i].pc = "done" /\ processes' = processes /\ proc' = proc)]_vars

\* the entry without a port failed while its neighbour was launched
C17_Witness ==
    /\ ret.op = "connect"
    /\ \E r \in Results : r.error = "unparseable" /\ r.port = Null
    /\ \E r \in Results : r.success
    /\ Len(processes) = 1

\* C18: when the spawn fails for one entry, its attempt is recorded as failed
\* with the error, no process and no handle exist for it, and every other
\* prepared entry is still attempted and reported.
C18_LaunchFailureIsolated ==
    /\ \A i \in 1..Len(attempts) :
          attempts[i].res.error = "launch" =>
              (~attempts[i].res.success /\ attempts[i].pid = 0)
    /\ (ret.op = "connect" /\ \E r \in Results : r.error = "launch") =>
          \A f \in Range(ret.prepared) :
              Cardinality({i \in 1..Len(ret.results) : ret.results[i].config_file = f}) = 1

C20_CleanupNeverRaises ==
    /\ [](\A i \in 1..Len(ctask) : ctask[i].pc # "raised")
    /\ [](ret.op \notin {"cleanup_raised", "wait_raised"})
    /\ (Cleaning ~> (pc = "idle" /\ ret.op \in {"cleanup", "wait"}))

\* cleanup is about to return after one termination failed and another ended
\* in a force-kill
C20_Witness ==
    /\ pc = "cleanup"
    /\ AllTasksDone
    /\ \E i \in 1..Len(ctask) : ctask[i].pc = "error"
    /\ \E i \in 1..Len(ctask) : proc[ctask[i].process].sigs = <<"TERM", "KILL">>

\* every task of the batch has finished: gather is about to hand its list over
BatchFinished ==
    /\ pc = "connect"
    /\ \A i \in 1..Len(attempts) : attempts[i].pc \in {"done", "raised"}

\* the attempts of the batch that contribute a result
Reported == {i \in 1..Len(attempts) : attempts[i].pc = "done"}

\* the position of attempt i's result in the list connect_batch returns
Position(i) ==
    LET results == collect_results(attempts)
    IN  CHOOSE k \in 1..Len(results) : results[k].config_file = attempts[i].file

\* C21 as stated: the list connect_batch returns is in completion order: the
\* result of an attempt that finished earlier precedes the result of one that
\* finished later, whatever the order of submission.
C21_CompletionOrder ==
    BatchFinished =>
        \A i, j \in Reported :
            attempts[i].rank < attempts[j].rank => Position(i) < Position(j)

\* C21: the list connect_batch returns is in submission order (the sorted
\* order of the prepared entries), also when a later-submitted attempt
\* finished before an earlier one.
C21_SubmissionOrder ==
    BatchFinished =>
        /\ Len(collect_results(attempts)) = Cardinality(Reported)
        /\ \A i, j \in Reported : i < j => Position(i) < Position(j)

\* a later-submitted attempt finished before an earlier-submitted one, and
\* both are reported
C21_Witness ==
    /\ BatchFinished
    /\ \E i, j \in Reported : i < j /\ attempts[j].rank < attempts[i].rank

\* the pattern s has name as one of its pieces: a run of characters without a
\* bar that is bounded on each side by a bar or by an end of the pattern
Piece(s, name) ==
    \E i \in 1..(Len(s) + 1) :
        LET j == i + Len(name) - 1
        IN  /\ j <= Len(s)
            /\ i = 1 \/ s[i - 1] = "|"
            /\ j = Len(s) \/ s[j + 1] = "|"
            /\ \A k \in 1..Len(name) : s[i + k - 1] = name[k] /\ name[k] # "|"

\* C22: for a pattern containing "|" and limit 0, select_config_files returns
\* exactly the existing config files whose basename equals one of the names
\* between the bars: no file is selected on a partial match, and every
\* listed name that exists is selected (once).
C22_NamesExactly ==
    (ret.op = "select" /\ ret.limit = 0 /\ "|" \in Range(ret.filter_pattern)) =>
        /\ Range(ret.selected) = {f \in Range(listing) : Piece(ret.filter_pattern, basename(f))}
        /\ Len(ret.selected) = Cardinality(Range(ret.selected))

\* two listed names were selected while a file whose name contains a listed
\* name, and one that differs from it in case only, were not
C22_Witness ==
    /\ ret.op = "select" /\ ret.limit = 0
    /\ ret.filter_pattern = Join(<<"a.json", "b.json">>)
    /\ ret.selected = <<"a.json", "b.json">>
    /\ {"[a.json", "A.json"} \subseteq Range(listing)

\* what the filter of a call keeps of a file name, stated case by case
Kept(s, name) ==
    IF s = <<>> THEN TRUE
    ELSE IF \E i \in 1..Len(s) : s[i] = "|" THEN Piece(s, name)
    ELSE IF \A i \in 1..Len(s) : s[i] # "["
    THEN \E k \in 0..(Len(name) - Len(s)) :
             \A i \in 1..Len(s) : s[i] = "." \/ lower(s[i]) = lower(name[k + i])
    ELSE \E k \in 0..(Len(name) - Len(s)) :
             \A i \in 1..Len(s) : lower(s[i]) = lower(name[k + i])

\* the files of the directory the filter of the last call keeps, and how many
\* of them are listed before f
KeptFiles == {f \in Range(listing) : Kept(ret.filter_pattern, basename(f))}

KeptBefore(f) ==
    Cardinality({g \in KeptFiles :
        (CHOOSE i \in 1..Len(listing) : listing[i] = g)
            < (CHOOSE i \in 1..Len(listing) : listing[i] = f)})

\* C23: select_config_files truncates before it sorts: with limit > 0 the
\* result is the first min(limit, n) of the n filtered files in listing
\* order, sorted; it has exactly min(limit, n) entries; with limit = 0 it is
\* all filtered files, sorted.
C23_TruncateThenSort ==
    ret.op = "select" =>
        LET n == Cardinality(KeptFiles)
            m == IF ret.limit > 0 /\ ret.limit < n THEN ret.limit ELSE n
        IN  /\ Len(ret.selected) = m
            /\ Range(ret.selected) = {f \in KeptFiles : KeptBefore(f) < m}
            /\ \A i, j \in 1..Len(ret.selected) :
                  i < j => Rank(ret.selected[i]) < Rank(ret.selected[j])

\* a limit of two cut a listing that was not in sorted order: the result is
\* sorted, and it is not the two smallest names
C23_Witness ==
    /\ ret.op = "select" /\ ret.limit = 2 /\ ret.filter_pattern = <<>>
    /\ listing = <<"c.json", "[a.json", "A.json", "ab.json", "a.json", "b.json">>
    /\ ret.selected = <<"[a.json", "c.json">>

\* C24: a pattern containing "|" is always a list of literal names (never a
\* regular-expression alternation); any other pattern is a case-insensitive
\* regular expression searched in the basename; only a pattern that does not
\* compile is a case-insensitive substring; an absent or empty pattern
\* selects every file.
C24_FilterPrecedence ==
    (ret.op = "select" /\ ret.limit = 0) => Range(ret.selected) = KeptFiles

\* "a|b" selected nothing in a directory with a.json and b.json, where the
\* alternation of a and b would have found both
C24_Witness ==
    /\ ret.op = "select" /\ ret.limit = 0
    /\ ret.filter_pattern = <<"a", "|", "b">>
    /\ ret.selected = <<>>
    /\ {"a.json", "b.json"} \subseteq Range(listing)

\* C25 as stated: no client is constructed with a given config_dir for which
\* validate_config_dir returns false.
C25_InvalidNeverConstructed ==
    (pc \notin {"new", "failed"} /\ config_dir # "none") => validate_config_dir

\* C25: validate_config_dir returns true if and only if the directory is set,
\* exists, is a directory and lists at least one .json file; construction
\* with a non-empty config_dir for which it returns false fails with
\* ValueError (or, before that, for want of an executable), while with
\* config_dir None or "" the directory is not validated and construction
\* succeeds.
C25_ValidateAndConstruct ==
    /\ validate_config_dir <=>
          /\ config_dir \notin {"none", "empty"}
          /\ config_dir # "missing"
          /\ config_dir = "dir"
          /\ \E f \in FileNames : f \in Range(listing)
    /\ (pc \notin {"new", "failed"} /\ config_dir \notin {"none", "empty"}) => validate_config_dir
    /\ (pc = "failed" /\ ret.op = "ValueError") =>
          config_dir \notin {"none", "empty"} /\ ~validate_config_dir

\* construction failed on a directory that exists and holds no config file
C25_Witness ==
    /\ pc = "failed" /\ ret.op = "ValueError"
    /\ config_dir = "dir" /\ listing = <<>>

\* C26: in a directory without config files every selection is empty, and a
\* call of connect_batch whose selection is empty returns an empty list at
\* once: it starts no attempt, launches no process and leaves the
\* Supervision Set, the gate and every process as they were.
C26_EmptySelectionFrame ==
    /\ [](listing = <<>> =>
            \A limit \in 0..MaxLimit, filter_pattern \in FilterInputs :
                select_config_files(limit, filter_pattern) = <<>>)
    /\ [](pc = "connect" => ret.selected # <<>>)
    /\ []((ret.op = "connect" /\ ret.selected = <<>>) => ret.results = <<>>)
    /\ [][(pc = "idle" /\ ret' # ret /\ ret'.op = "connect" /\ ret'.selected = <<>>)
            => /\ pc' = "idle"
               /\ UNCHANGED <<processes, proc, confirmed, batch, waiter, cleaner>>]_vars

\* connect_batch has returned from an empty selection while the Supervision
\* Set holds the handle of a running process
C26_Witness ==
    /\ pc = "idle"
    /\ ret = Returned("connect", <<>>, <<>>)
    /\ \E i \in 1..Len(processes) : proc[processes[i].process].rc = Null

\* C27: the coroutines' changes of the Supervision Set do not interleave:
\* when the monitoring loop comes back from reading the output of an exited
\* process its handle is still in the set and is the one removed (no removal
\* fails); a handle leaves the set only by that removal or by the clearing at
\* the end of cleanup_processes (no handle is lost); and the monitoring loop
\* never ends while the waiter still waits on an unresolved future.
C27_SetMutationsAtomic ==
    /\ [][(mon.pc = "reading" /\ mon' # mon /\ pc' = pc)
            => /\ mon.cur \in Range(processes)
               /\ processes' = Remove(processes, mon.cur)]_vars
    /\ [][\A h \in Range(processes) \ Range(processes') :
            \/ mon.pc = "reading" /\ mon.cur = h /\ proc[h.process].rc # Null
            \/ Cleaning /\ processes' = <<>>]_vars
    /\ []((pc = "wait" /\ mon.pc = "off") => future # "pending")

\* the cleanup began while the monitoring loop was reading the output of an
\* exited process it had not yet removed: the handle is still in the set
C27_Witness ==
    /\ Cleaning
    /\ mon.at = "reading"
    /\ \E h \in Range(processes) : proc[h.process].rc # Null /\ h.process \in confirmed

\* the size the gate of the running batch was created with
GateSize == IF max_parallel > 0 THEN max_parallel ELSE Len(ret.selected)

\* C28: every attempt gives its permit back when it completes, by success, by
\* failure or by raising: the free permits and the attempts in flight always
\* add up to the size of the gate; every queued attempt eventually gets past
\* the gate; and connect_batch eventually returns, with every permit free
\* once the last attempt has finished.
C28_GateReleased ==
    /\ [](pc = "connect" => semaphore + InFlight = GateSize)
    /\ [](BatchFinished => semaphore = GateSize)
    /\ \A i \in 1..MaxProcs :
          (pc = "connect" /\ i <= Len(attempts) /\ attempts[i].pc = "queued")
              ~> (i <= Len(attempts) /\ attempts[i].pc # "queued")
    /\ (pc = "connect") ~> (pc = "idle" /\ ret.op = "connect")

\* with one permit for two or more prepared entries, the first attempt failed
\* at its launch and a later one is past the gate
C28_Witness ==
    /\ pc = "connect"
    /\ max_parallel = 1
    /\ Len(attempts) >= 2
    /\ attempts[1].pc = "done" /\ attempts[1].res.error = "launch"
    /\ \E i \in 2..Len(attempts) : attempts[i].pc \in {"spawning", "grace"}

\* C29 as stated: with max_parallel = 0 the gate has as many permits as there
\* are prepared entries.
C29_GateIsPrepared ==
    (pc = "connect" /\ max_parallel = 0) => semaphore + InFlight = Len(attempts)

\* C29: with max_parallel = 0 the gate has as many permits as there are
\* selected files, counted before the preparation; that is at least the
\* number of prepared entries, so no prepared attempt ever waits at the gate
\* and all of them may be in flight at once.
C29_GateIsSelected ==
    (pc = "connect" /\ max_parallel = 0) =>
        /\ semaphore + InFlight = Len(ret.selected)
        /\ Len(attempts) <= Len(ret.selected)
        /\ (\E i \in 1..Len(attempts) : attempts[i].pc = "queued") => GateOpen

\* without a bound, every prepared attempt is in flight while one selected
\* file did not survive the preparation
C29_Witness ==
    /\ pc = "connect" /\ max_parallel = 0
    /\ Len(attempts) = 2 /\ InFlight = 2
    /\ Len(ret.selected) = 3

\* wait_for_interrupt is in its cleanup_processes
WaitCleaning == pc \in {"wait_cleanup", "wait_cleanup_raise"}

\* C30: the monitoring task is torn down when wait_for_interrupt goes on to
\* cleanup_processes: from then on it is not running, it polls no process,
\* removes no handle and does not resolve the future; the set changes only
\* when the cleanup clears it at its end.
C30_MonitorTornDown ==
    /\ [](pc # "wait" => mon.pc = "off")
    /\ [][WaitCleaning =>
            /\ pc' # "idle" =>
                  /\ mon' = mon /\ future' = future
                  /\ processes' = processes /\ confirmed' = confirmed
            /\ pc' = "idle" => mon'.pc = "off" /\ future' = "none"]_vars

\* the cleanup runs after an interrupt that caught the monitoring task in its
\* sleep, with an exited process the task had not yet seen still in the set
C30_Witness ==
    /\ WaitCleaning
    /\ mon.at = "sleep"
    /\ future = "cancelled"
    /\ \E h \in Range(processes) : proc[h.process].rc # Null /\ h.process \notin confirmed

\* C32: the monitoring loop removes a handle only if its process had an exit
\* code when the loop polled it: every handle that leaves the set during the
\* wait belongs to a process that has exited and that the loop has seen
\* exited, never to a running one; and the loop resolves the future only
\* when the set is empty.
C32_RemovesOnlyExited ==
    /\ [][(pc = "wait" /\ pc' = "wait") =>
            \A h \in Range(processes) \ Range(processes') :
                /\ proc[h.process].rc # Null
                /\ h.process \in confirmed
                /\ mon.pc = "reading" /\ mon.cur = h]_vars
    /\ [][(future = "pending" /\ future' = "result") => processes' = <<>>]_vars
    /\ []((pc = "wait" /\ future = "pending")
            => \A p \in Pids : (proc[p].used /\ proc[p].rc = Null)
                                => \E h \in Range(processes) : h.process = p)

\* the loop has removed the handle of the process launched first and sleeps
\* while the one launched second is still running and in the set
C32_Witness ==
    /\ pc = "wait" /\ mon.pc = "sleep" /\ future = "pending"
    /\ ~proc[1].used
    /\ \E h \in Range(processes) : h.process = 2 /\ proc[2].rc = Null

\* C34: cleanup_processes called on an empty set does nothing: it creates no
\* termination coroutine, sends no signal, lets no time pass and returns at
\* once, leaving the set, the processes and every other part of the state as
\* they were (so main's cleanup after the waiter's own cleanup is a no-op).
C34_EmptyCleanupNoOp ==
    /\ [][(pc = "idle" /\ pc' = "cleanup" /\ processes = <<>>)
            => /\ ctask' = <<>>
               /\ UNCHANGED <<env, batch, processes, proc, confirmed, waiter>>]_vars
    /\ [][(pc = "cleanup" /\ ctask = <<>>)
            => /\ pc' = "idle" /\ ret'.op = "cleanup"
               /\ UNCHANGED <<env, batch, processes, proc, confirmed, waiter,
                              cleaner>>]_vars
    /\ []((pc = "cleanup" /\ ctask = <<>>)
            => processes = <<>> /\ clock = 0 /\ \A p \in Pids : ~proc[p].used)

\* a cleanup has returned with the set empty, no process in existence and no
\* signal ever sent
C34_Witness ==
    /\ pc = "idle" /\ ret.op = "cleanup" /\ processes = <<>>
    /\ \A p \in Pids : ~proc[p].used /\ proc[p].sigs = <<>>

\* C35: wait_for_interrupt called with an empty set returns immediately: no
\* future and no monitoring task are created, nothing is awaited, no cleanup
\* coroutine runs and the set is unchanged; the monitoring task only ever
\* starts with a non-empty set.
C35_EmptyWaitReturns ==
    /\ [][(pc = "idle" /\ processes = <<>> /\ ret' # ret /\ ret'.op = "wait")
            => /\ pc' = "idle"
               /\ UNCHANGED <<env, batch, processes, proc, confirmed, waiter,
                              cleaner>>]_vars
    /\ [][(pc = "idle" /\ pc' = "wait") => processes # <<>>]_vars
    /\ []((pc = "wait" /\ mon.pc = "start") => processes # <<>>)

\* the waiter has returned in a directory from which nothing can be launched
C35_Witness ==
    /\ listing = <<>> /\ pc = "idle" /\ ret.op = "wait"
    /\ processes = <<>> /\ future = "none" /\ mon = MonOff /\ ctask = <<>>

\* the entries of a sequence of records differ pairwise in the field read by F
Distinct(seq, F(_)) ==
    \A i, j \in 1..Len(seq) : i # j => F(seq[i]) # F(seq[j])
FileOfAttempt(a) == a.file
FileOfResult(r) == r.config_file

\* C36: within one connect_batch call every config path is attempted at most
\* once, launched at most once (an attempt has at most one process, and the
\* handle of that process carries the attempt's path) and reported in at most
\* one AttemptResult; every attempted and every reported path is one of the
\* files select_config_files returned; and with limit > 0 neither the
\* attempts nor the results nor the launches outnumber the limit.
C36_OncePerPathWithinLimit ==
    /\ [][\A limit \in 1..MaxLimit, filter_pattern \in FilterInputs :
            ConnectWith(limit, filter_pattern)
                => /\ Len(ret'.selected) <= limit
                   /\ pc' = "connect" => Len(attempts') <= limit]_vars
    /\ [](pc = "connect"
            => /\ Distinct(attempts, FileOfAttempt)
               /\ Distinct(ret.selected, LAMBDA f : f)
               /\ Len(attempts) <= Len(ret.selected)
               /\ \A i \in 1..Len(attempts) :
                     /\ attempts[i].file \in Range(ret.selected)
                     /\ attempts[i].pid # 0 =>
                           /\ \A j \in 1..Len(attempts) :
                                 i # j => attempts[j].pid # attempts[i].pid
                           /\ \A h \in Range(processes) :
                                 h.process = attempts[i].pid
                                    => h.config_file = attempts[i].file)
    /\ []((pc = "idle" /\ ret.op = "connect")
            => /\ Distinct(ret.results, FileOfResult)
               /\ Len(ret.results) <= Len(ret.selected)
               /\ \A r \in Range(ret.results) : r.config_file \in Range(ret.selected))
    /\ [][(pc = "connect" /\ pc' = "idle")
            => Cardinality({i \in 1..Len(attempts) : attempts[i].pid # 0})
                  <= Len(ret'.selected)]_vars

\* a batch with limit 1 in a directory of several loadable files has returned
\* one result, that of the one file selected
C36_Witness ==
    /\ pc = "idle" /\ ret.op = "connect"
    /\ Len(listing) >= 2
    /\ Len(ret.selected) = 1 /\ Len(ret.results) = 1
    /\ ret.results[1].config_file = ret.selected[1]
    /\ \E h \in Range(processes) : h.config_file = ret.selected[1]

\* C37: a bound that is not positive is no bound.  With limit <= 0 nothing is
\* truncated: every file the filter keeps is selected, as with limit = 0.
\* With max_parallel <= 0 the gate has as many permits as files were
\* selected, as with max_parallel = 0, and so at least one: a gate is never
\* created with no permit or with a negative number of them.
C37_NonPositiveIsNoBound ==
    ret.op = "select" =>
        /\ ret.limit <= 0 =>
              /\ ret.selected = select_config_files(0, ret.filter_pattern)
              /\ Range(ret.selected) = KeptFiles
              /\ Len(ret.selected) = Cardinality(KeptFiles)
        /\ (max_parallel <= 0 /\ ret.selected # <<>>) =>
              /\ semaphore = gate_size(0, ret.selected)
              /\ semaphore = Len(ret.selected)
        /\ ret.selected # <<>> => semaphore >= 1
        /\ ret.selected = <<>> => semaphore = 0

\* a call with limit -1 and max_parallel -1 selected all six files of the
\* directory and made a gate of six permits
C37_Witness ==
    /\ ret.op = "select" /\ ret.limit = -1 /\ max_parallel = -1
    /\ ret.filter_pattern = <<>>
    /\ Len(ret.selected) = 6 /\ semaphore = 6

\* the files a run opened that hold a configuration when the run is over
Configured == {f \in DOMAIN ret.written : cfg[f].json}

\* C38: within one run of generate_all_configs every config file written
\* carries the listen address 127.0.0.1:(8080 + i) of a proxy index i of the
\* run, and no two files of the run carry the same index or the same listen
\* address, also when several proxies map to one file name and the later
\* overwrites the earlier.
C38_DistinctListenPorts ==
    ret.op = "generate" =>
        LET n == Len(get_proxy_by_type(ret.proxies, "hysteria2"))
        IN  /\ \A f \in Configured :
                  /\ ret.written[f] \in 0..(n - 1)
                  /\ cfg[f].haslisten
                  /\ cfg[f].listen = listen_address(start_port + ret.written[f])
                  /\ filepath(get_proxy_by_type(ret.proxies, "hysteria2")[ret.written[f] + 1]) = f
            /\ \A f, g \in Configured :
                  f # g => /\ ret.written[f] # ret.written[g]
                           /\ cfg[f].listen # cfg[g].listen
            /\ Range(ret.results) \subseteq DOMAIN ret.written

\* three proxies, the first and the third with the same file name: a.json
\* was written twice and holds the port of the third, b.json that of the second
C38_Witness ==
    /\ ret.op = "generate"
    /\ ret.results = <<"a.json", "b.json", "a.json">>
    /\ cfg["a.json"].listen = listen_address(8082)
    /\ cfg["b.json"].listen = listen_address(8081)

\* main has left its try block and has not returned yet
InFinally == pc = "idle" /\ ret.op \in TryLeft

\* C33: once the client is constructed, main does not return without
\* cleanup_processes having run: whether batch_connect and wait_for_interrupt
\* returned, raised or were cancelled, main goes from its try block into a
\* cleanup and returns only out of it, and when it has returned the
\* Supervision Set is empty and no handle of a child is left.
C33_CleanupBeforeReturn ==
    /\ [](pc = "returned" =>
            /\ ret.op = "cleanup"
            /\ processes = <<>>
            /\ \A p \in Pids : ~proc[p].used)
    /\ [][(InFinally /\ pc' # pc) => (pc' = "cleanup" /\ ret'.op = "none")]_vars
    /\ [][pc' = "returned" => (pc = "idle" /\ ret.op = "cleanup")]_vars
    /\ [][(ret'.op = "cleanup" /\ ret.op # "cleanup") => pc = "cleanup"]_vars
    /\ (InFinally ~> pc = "returned")

\* main left its try block on a cancellation while a child was in the set:
\* the cleanup of the finally clause has signalled the child, which has
\* exited, and is about to clear the set and return to main
C33_Witness ==
    /\ pc = "cleanup"
    /\ AllTasksDone
    /\ \E h \in Range(processes) :
          /\ proc[h.process].sigs # <<>>
          /\ proc[h.process].rc # Null

\* the children that exist: spawned, and their Process objects still held
Children == {p \in Pids : proc[p].used}

\* C31: no child is orphaned.  Every child launch_process has spawned has its
\* handle in the Supervision Set, from the step in which it was spawned
\* until the monitoring loop removes the handle of the exited child or a
\* cleanup clears the set; a child cut off by a cancelled launch never
\* exists.  A cleanup, whenever it starts, has one termination coroutine
\* for every child, and when it returns (it was not cancelled) every child
\* has exited or has been sent a signal.
C31_NoOrphan ==
    /\ [](\A p \in Children : \E h \in Range(processes) : h.process = p)
    /\ [][\A p \in Children \ {h.process : h \in Range(processes')} :
            \/ Cleaning /\ pc' = "idle"
            \/ pc = "wait" /\ mon.pc = "reading" /\ mon.cur.process = p
                  /\ proc[p].rc # Null]_vars
    /\ [](Cleaning => {ctask[i].process : i \in 1..Len(ctask)} = Children)
    /\ [][(Cleaning /\ pc' = "idle" /\ ret'.op # "wait_cancelled") =>
            \A p \in Children : proc[p].rc # Null \/ proc[p].sigs # <<>>]_vars

\* main left its try block on a cancellation with one child in the set: the
\* cleanup of the finally clause has signalled the child, which is still
\* running
C31_Witness ==
    /\ pc = "cleanup"
    /\ ret.op = "none"
    /\ Len(processes) = 1
    /\ \E h \in Range(processes) :
          /\ proc[h.process].sigs # <<>>
          /\ proc[h.process].rc = Null

====
